---- MODULE Spec2Model ----
(***************************************************************************)
(* A model of nambelaas/golang-fiber: the package-level test application   *)
(* of fiber_test.go (its error handler, the routes the tests register and  *)
(* the in-process requests sent to it) and the server bootstrap of main.go.*)
(*                                                                         *)
(* Text is a sequence of one-character strings, so that parsing, escaping  *)
(* and concatenation are computed rather than assumed.  A request path is  *)
(* the sequence of its segments ("/hello" is <<"hello">>, "/" is <<>>).    *)
(***************************************************************************)
EXTENDS Integers, Sequences, FiniteSets, TLC

VARIABLES
  routes,    \* the test application's route stack, in registration order
  lastReq,   \* the request app.Test is answering, or NoRequest
  lastResp,  \* the response to lastReq
  lastErr,   \* the error the handler chain returned for lastReq
  lastSave,  \* how saving the upload of lastReq ended
  source,    \* the files of ./source
  target,    \* the files of ./target
  pc,        \* main's position
  installed, \* the route stack of main's application
  stdout,    \* the lines printed, each with the request that printed it (0: main)
  conns,     \* the connections of the listening server and their requests
  served,    \* requests accepted so far
  isChild,   \* fiber.IsChild() of this process
  listenErr, \* what app.Listen returned
  panicked   \* the value main panicked with

testVars == <<routes, lastReq, lastResp, lastErr, lastSave, source, target>>

mainVars == <<pc, installed, stdout, conns, served, isChild, listenErr, panicked>>

vars == <<testVars, mainVars>>

\* ------------------------------------------------------------------ bounds

\* The longest route stack the exploration registers.
MaxRoutes == 2

\* Connections the server holds at once, and requests it accepts in a run.
MaxConns == 2
MaxRequests == 2

\* ------------------------------------------------------------------- text

HelloComma == <<"H", "e", "l", "l", "o", ",", " ">>
HelloSpace == <<"H", "e", "l", "l", "o", " ">>
World == <<"W", "o", "r", "l", "d">>
HelloWorldBang == <<"H", "e", "l", "l", "o", ",", " ", "W", "o", "r", "l", "d", "!">>
Ups == <<"U", "p", "s">>
UploadSuccess == <<"U", "p", "l", "o", "a", "d", " ", "S", "u", "c", "c", "e", "s", "s">>
RegisterSuccess == <<"R", "e", "g", "i", "s", "t", "e", "r", " ", "S", "u", "c", "c", "e", "s", "s", " ">>
K_username == <<"u", "s", "e", "r", "n", "a", "m", "e">>
K_password == <<"p", "a", "s", "s", "w", "o", "r", "d">>
K_name == <<"n", "a", "m", "e">>
Salman == <<"S", "a", "l", "m", "a", "n">>
P123 == <<"1", "2", "3">>
RootTag == <<"R", "e", "g", "i", "s", "t", "e", "r", "R", "e", "q", "u", "e", "s", "t">>
SampleContent == <<"t", "h", "i", "s", " ", "i", "s", " ", "s", "a", "m", "p", "l", "e", " ", "f", "i", "l", "e", " ",
                   "f", "o", "r", " ", "u", "p", "l", "o", "a", "d">>
Before == <<"Middleware before processing request">>
After == <<"Middleware after processing request">>
ChildProcess == <<"Child process">>
ParentProcess == <<"Parent process">>
UserJSON == <<"{", "\"", "p", "a", "s", "s", "w", "o", "r", "d", "\"", ":", "\"", "1", "2", "3", "\"", ",",
              "\"", "u", "s", "e", "r", "n", "a", "m", "e", "\"", ":", "\"", "S", "a", "l", "m", "a", "n", "\"", "}">>

\* Printable characters in byte order: what the ordering of keys rests on.
Alphabet == <<" ", "!", "\"", "#", "$", "%", "&", "'", "(", ")", "*", "+", ",", "-", ".", "/",
              "0", "1", "2", "3", "4", "5", "6", "7", "8", "9", ":", ";", "<", "=", ">", "?", "@",
              "A", "B", "C", "D", "E", "F", "G", "H", "I", "J", "K", "L", "M", "N", "O", "P", "Q", "R",
              "S", "T", "U", "V", "W", "X", "Y", "Z", "[", "\\", "]", "^", "_",
              "a", "b", "c", "d", "e", "f", "g", "h", "i", "j", "k", "l", "m", "n", "o", "p", "q", "r",
              "s", "t", "u", "v", "w", "x", "y", "z", "{", "|", "}", "~">>

Ord(c) == CHOOSE i \in 1..Len(Alphabet) : Alphabet[i] = c

\* Byte-wise order of two texts, as Go compares strings.
RECURSIVE Less(_, _)
Less(a, b) ==
  IF b = <<>> THEN FALSE
  ELSE IF a = <<>> THEN TRUE
  ELSE IF a[1] = b[1] THEN Less(Tail(a), Tail(b))
  ELSE Ord(a[1]) < Ord(b[1])

Range(s) == {s[i] : i \in 1..Len(s)}

\* A value computed once and named in what follows: Let(e, LAMBDA x : body).
Let(v, Body(_)) == Body(v)

\* The first index >= i at which c occurs in s, or Len(s) + 1.
RECURSIVE IndexFrom(_, _, _)
IndexFrom(s, c, i) ==
  IF i > Len(s) THEN Len(s) + 1
  ELSE IF s[i] = c THEN i
  ELSE IndexFrom(s, c, i + 1)

\* s[i..j]; empty when j < i.
Sub(s, i, j) == IF j < i THEN <<>> ELSE SubSeq(s, i, j)

HexDigits == <<"0", "1", "2", "3", "4", "5", "6", "7", "8", "9", "A", "B", "C", "D", "E", "F">>

IsHex(c) == c \in Range(HexDigits)

HexVal(c) == (CHOOSE i \in 1..16 : HexDigits[i] = c) - 1

\* The characters the percent-escapes of the modelled inputs stand for.
ByteChars == [n \in {32, 34, 37, 38, 43, 45, 60, 61} |->
  CASE n = 32 -> " " [] n = 34 -> "\"" [] n = 37 -> "%" [] n = 38 -> "&"
    [] n = 43 -> "+" [] n = 45 -> "-" [] n = 60 -> "<" [] n = 61 -> "="]

\* ------------------------------------------- url-encoded arguments

\* Percent-decoding of one key or value: "+" is a space, "%XY" the byte XY,
\* and a "%" that starts no escape stands for itself.
RECURSIVE DecodeArg(_)
DecodeArg(s) ==
  IF s = <<>> THEN <<>>
  ELSE IF s[1] = "+" THEN <<" ">> \o DecodeArg(Tail(s))
  ELSE IF /\ s[1] = "%"
          /\ Len(s) >= 3
          /\ IsHex(s[2])
          /\ IsHex(s[3])
          /\ (16 * HexVal(s[2]) + HexVal(s[3])) \in DOMAIN ByteChars
       THEN <<ByteChars[16 * HexVal(s[2]) + HexVal(s[3])]>> \o DecodeArg(Sub(s, 4, Len(s)))
  ELSE <<s[1]>> \o DecodeArg(Tail(s))

\* One "key=value" pair: split at the first "=", both sides decoded.
ParsePair(p) ==
  Let(IndexFrom(p, "=", 1), LAMBDA e :
    [key |-> DecodeArg(Sub(p, 1, e - 1)), val |-> DecodeArg(Sub(p, e + 1, Len(p)))])

\* "k=v&k=v...": the pairs in order; empty pairs are skipped.
RECURSIVE ParseArgs(_)
ParseArgs(s) ==
  IF s = <<>> THEN <<>>
  ELSE Let(IndexFrom(s, "&", 1), LAMBDA a :
         (IF a = 1 THEN <<>> ELSE <<ParsePair(Sub(s, 1, a - 1))>>) \o ParseArgs(Sub(s, a + 1, Len(s))))

\* The value of the first pair with this key, or the empty text.
RECURSIVE Peek(_, _)
Peek(args, key) ==
  IF args = <<>> THEN <<>>
  ELSE IF args[1].key = key THEN args[1].val
  ELSE Peek(Tail(args), key)

HasKey(args, key) == \E i \in 1..Len(args) : args[i].key = key

\* ------------------------------------------------------------------ JSON

IsSpace(c) == c \in {" ", "\n", "\t", "\r"}

IsDigit(c) == c \in {"0", "1", "2", "3", "4", "5", "6", "7", "8", "9"}

RECURSIVE SkipSpace(_, _)
SkipSpace(s, i) == IF i <= Len(s) /\ IsSpace(s[i]) THEN SkipSpace(s, i + 1) ELSE i

RECURSIVE SkipDigits(_, _)
SkipDigits(s, i) == IF i <= Len(s) /\ IsDigit(s[i]) THEN SkipDigits(s, i + 1) ELSE i

ErrUnexpectedEnd == <<"unexpected end of JSON input">>
ErrInvalidCharacter == <<"invalid character">>
ErrCannotUnmarshal == <<"json: cannot unmarshal into Go value">>

Fail(m) == [ok |-> FALSE, err |-> m, val |-> <<>>, kind |-> "", next |-> 0, fields |-> <<>>]

\* A JSON string whose opening quote is at i - 1: its text up to the closing
\* quote, with the escapes \" \\ \/ undone.
RECURSIVE ScanString(_, _, _)
ScanString(s, j, acc) ==
  IF j > Len(s) THEN Fail(ErrUnexpectedEnd)
  ELSE IF s[j] = "\"" THEN [Fail(<<>>) EXCEPT !.ok = TRUE, !.val = acc, !.kind = "string", !.next = j + 1]
  ELSE IF s[j] = "\\"
       THEN IF j + 1 > Len(s) THEN Fail(ErrUnexpectedEnd)
            ELSE IF s[j + 1] \in {"\"", "\\", "/"} THEN ScanString(s, j + 2, Append(acc, s[j + 1]))
            ELSE Fail(ErrInvalidCharacter)
  ELSE ScanString(s, j + 1, Append(acc, s[j]))

\* A member's value at i: a string or a number.
ScanValue(s, i) ==
  IF i > Len(s) THEN Fail(ErrUnexpectedEnd)
  ELSE IF s[i] = "\"" THEN ScanString(s, i + 1, <<>>)
  ELSE IF IsDigit(s[i])
       THEN [Fail(<<>>) EXCEPT !.ok = TRUE, !.kind = "number", !.next = SkipDigits(s, i)]
  ELSE Fail(ErrInvalidCharacter)

\* The members of an object, the first one's key expected at i.
RECURSIVE ScanMembers(_, _, _)
ScanMembers(s, i, acc) ==
  Let(SkipSpace(s, i), LAMBDA k :
    IF k > Len(s) THEN Fail(ErrUnexpectedEnd)
    ELSE IF s[k] # "\"" THEN Fail(ErrInvalidCharacter)
    ELSE Let(ScanString(s, k + 1, <<>>), LAMBDA key :
      IF ~key.ok THEN key
      ELSE Let(SkipSpace(s, key.next), LAMBDA c :
        IF c > Len(s) THEN Fail(ErrUnexpectedEnd)
        ELSE IF s[c] # ":" THEN Fail(ErrInvalidCharacter)
        ELSE Let(ScanValue(s, SkipSpace(s, c + 1)), LAMBDA v :
          IF ~v.ok THEN v
          ELSE Let(SkipSpace(s, v.next), LAMBDA e :
            Let(Append(acc, [key |-> key.val, val |-> v.val, kind |-> v.kind]), LAMBDA got :
              IF e > Len(s) THEN Fail(ErrUnexpectedEnd)
              ELSE IF s[e] = "," THEN ScanMembers(s, e + 1, got)
              ELSE IF s[e] = "}"
                   THEN [Fail(<<>>) EXCEPT !.ok = TRUE, !.kind = "object", !.fields = got, !.next = e + 1]
              ELSE Fail(ErrInvalidCharacter)))))))

\* The one top-level value of a document.
ScanDocument(s) ==
  Let(SkipSpace(s, 1), LAMBDA i :
    IF i > Len(s) THEN Fail(ErrUnexpectedEnd)
    ELSE IF s[i] = "{"
         THEN Let(SkipSpace(s, i + 1), LAMBDA k :
                IF k <= Len(s) /\ s[k] = "}"
                THEN [Fail(<<>>) EXCEPT !.ok = TRUE, !.kind = "object", !.next = k + 1]
                ELSE ScanMembers(s, i + 1, <<>>))
    ELSE IF i + 3 <= Len(s) /\ Sub(s, i, i + 3) = <<"n", "u", "l", "l">>
         THEN [Fail(<<>>) EXCEPT !.ok = TRUE, !.kind = "null", !.next = i + 4]
    ELSE ScanValue(s, i))

\* The last field of this name, as the decoders keep it.
RECURSIVE LastField(_, _)
LastField(fields, key) ==
  IF fields = <<>> THEN <<>>
  ELSE IF fields[Len(fields)].key = key THEN fields[Len(fields)].val
  ELSE LastField(Sub(fields, 1, Len(fields) - 1), key)

\* json.Unmarshal into a struct of string fields named by keys: the input is
\* validated as a whole, then decoded; a member of a known name that is no
\* string, and a document that is no object, are type errors; null decodes
\* to the zero struct.
JSONUnmarshal(s, keys) ==
  Let(ScanDocument(s), LAMBDA d :
    IF ~d.ok THEN d
    ELSE IF SkipSpace(s, d.next) <= Len(s) THEN Fail(ErrInvalidCharacter)
    ELSE IF d.kind \in {"string", "number"} THEN Fail(ErrCannotUnmarshal)
    ELSE IF \E m \in 1..Len(d.fields) : d.fields[m].key \in keys /\ d.fields[m].kind # "string"
         THEN Fail(ErrCannotUnmarshal)
    ELSE d)

RECURSIVE JSONEscape(_)
JSONEscape(s) ==
  IF s = <<>> THEN <<>>
  ELSE IF s[1] \in {"\"", "\\"} THEN <<"\\", s[1]>> \o JSONEscape(Tail(s))
  ELSE <<s[1]>> \o JSONEscape(Tail(s))

Quoted(s) == <<"\"">> \o JSONEscape(s) \o <<"\"">>

\* ------------------------------------------------------------------- XML

ErrXMLEOF == <<"EOF">>
ErrXMLSyntax == <<"XML syntax error">>

Entities == <<[name |-> <<"l", "t">>, char |-> "<"], [name |-> <<"g", "t">>, char |-> ">"],
              [name |-> <<"a", "m", "p">>, char |-> "&"],
              [name |-> <<"q", "u", "o", "t">>, char |-> "\""],
              [name |-> <<"a", "p", "o", "s">>, char |-> "'"]>>

RECURSIVE NameEnd(_, _)
NameEnd(s, i) ==
  IF i <= Len(s) /\ s[i] \notin {"<", ">", "/", "&"} /\ ~IsSpace(s[i]) THEN NameEnd(s, i + 1) ELSE i

XMLFail(m) == [ok |-> FALSE, err |-> m, name |-> <<>>, text |-> <<>>, kids |-> <<>>, next |-> 0]

\* An element whose "<" is at i, and the content of an open element from j on:
\* character data with its entities, child elements, then the closing tag.
RECURSIVE ScanElement(_, _)
RECURSIVE ScanContent(_, _, _, _, _)
ScanElement(s, i) ==
  Let(NameEnd(s, i + 1), LAMBDA e :
    IF e > Len(s) THEN XMLFail(ErrXMLSyntax)
    ELSE IF e = i + 1 \/ s[e] # ">" THEN XMLFail(ErrXMLSyntax)
    ELSE ScanContent(s, e + 1, Sub(s, i + 1, e - 1), <<>>, <<>>))

ScanContent(s, j, name, text, kids) ==
  IF j > Len(s) THEN XMLFail(ErrXMLSyntax)
  ELSE IF s[j] = "<"
       THEN IF j + 1 <= Len(s) /\ s[j + 1] = "/"
            THEN Let(NameEnd(s, j + 2), LAMBDA e :
                   IF e <= Len(s) /\ s[e] = ">" /\ Sub(s, j + 2, e - 1) = name
                   THEN [ok |-> TRUE, err |-> <<>>, name |-> name, text |-> text,
                         kids |-> kids, next |-> e + 1]
                   ELSE XMLFail(ErrXMLSyntax))
            ELSE Let(ScanElement(s, j), LAMBDA k :
                   IF ~k.ok THEN k
                   ELSE ScanContent(s, k.next, name, text, Append(kids, [key |-> k.name, val |-> k.text])))
  ELSE IF s[j] = "&"
       THEN Let(IndexFrom(s, ";", j), LAMBDA e :
              Let({n \in 1..Len(Entities) : Entities[n].name = Sub(s, j + 1, e - 1)}, LAMBDA ent :
                IF e > Len(s) \/ ent = {} THEN XMLFail(ErrXMLSyntax)
                ELSE ScanContent(s, e + 1, name, Append(text, Entities[CHOOSE n \in ent : TRUE].char), kids)))
  ELSE ScanContent(s, j + 1, name, Append(text, s[j]), kids)

\* xml.Unmarshal into a struct of string fields: the first element of the
\* input is the root, whatever its name; its children are the fields.
XMLUnmarshal(s) ==
  Let(IndexFrom(s, "<", 1), LAMBDA i :
    IF i > Len(s) THEN [ok |-> FALSE, err |-> ErrXMLEOF, fields |-> <<>>]
    ELSE Let(ScanElement(s, i), LAMBDA r : [ok |-> r.ok, err |-> r.err, fields |-> r.kids]))

RECURSIVE XMLEscape(_)
XMLEscape(s) ==
  IF s = <<>> THEN <<>>
  ELSE (CASE s[1] = "<" -> <<"&", "l", "t", ";">>
          [] s[1] = "&" -> <<"&", "a", "m", "p", ";">>
          [] OTHER -> <<s[1]>>) \o XMLEscape(Tail(s))

Element(name, text) == <<"<">> \o name \o <<">">> \o XMLEscape(text) \o <<"<", "/">> \o name \o <<">">>

\* ------------------------------------------------- url-encoded, writing

RECURSIVE PctEncode(_)
PctEncode(s) ==
  IF s = <<>> THEN <<>>
  ELSE (CASE s[1] = " " -> <<"+">>
          [] s[1] = "&" -> <<"%", "2", "6">>
          [] s[1] = "=" -> <<"%", "3", "D">>
          [] s[1] = "%" -> <<"%", "2", "5">>
          [] s[1] = "+" -> <<"%", "2", "B">>
          [] s[1] = "-" -> <<"%", "2", "D">>
          [] s[1] = "<" -> <<"%", "3", "C">>
          [] s[1] = "\"" -> <<"%", "2", "2">>
          [] OTHER -> <<s[1]>>) \o PctEncode(Tail(s))

\* ------------------------------------------------------ context, errors

StatusOK == 200
StatusNotFound == 404
StatusUnprocessableEntity == 422
StatusInternalServerError == 500

\* An error value: nil, or a message with the status code a framework error
\* carries (0 for a plain error).
Nil == [isNil |-> TRUE, code |-> 0, msg |-> <<>>]

NewError(code, m) == [isNil |-> FALSE, code |-> code, msg |-> m]

\* A fresh response: status 200, empty body.
NewCtx == [status |-> StatusOK, body |-> <<>>]

SendString(ctx, s) == [ctx EXCEPT !.body = s]

Status(ctx, code) == [ctx EXCEPT !.status = code]

\* A handler's outcome: the context it wrote, the error it returned, the
\* upload directory after it ran, and whether it passed the request on.
Done(ctx, err, dir) == [ctx |-> ctx, err |-> err, dir |-> dir, next |-> FALSE]

PassOn(dir) == [ctx |-> NewCtx, err |-> Nil, dir |-> dir, next |-> TRUE]

ErrorHandlerKeepsStatus(ctx, err) == SendString(ctx, err.msg)

\* fiber.Config.ErrorHandler of the test application.
ErrorHandler(ctx, err) == SendString(Status(ctx, StatusInternalServerError), err.msg)

\* ---------------------------------------------------------- ctx readers

defaultString(value, defaultValue) == IF Len(value) = 0 THEN defaultValue ELSE value

\* ctx.Query(key, default).
Query(req, key, defaultValue) == defaultString(Peek(ParseArgs(req.query), key), defaultValue)

MIMEApplicationJSON == "application/json"
MIMEApplicationForm == "application/x-www-form-urlencoded"
MIMEMultipartForm == "multipart/form-data"
MIMEApplicationXML == "application/xml"
MIMETextXML == "text/xml"
MIMETextPlain == "text/plain"

PostArgs(req) == IF req.ctype = MIMEApplicationForm THEN ParseArgs(req.body) ELSE <<>>

\* The value fields of a multipart form: its parts that carry no file.
RECURSIVE MultipartValues(_)
MultipartValues(parts) ==
  IF parts = <<>> THEN <<>>
  ELSE (IF parts[1].filename = "" THEN <<[key |-> parts[1].field, val |-> parts[1].data]>> ELSE <<>>)
       \o MultipartValues(Tail(parts))

\* ctx.FormValue(key): the query string first, then the posted form.
FormValue(req, key) ==
  Let(Peek(ParseArgs(req.query), key), LAMBDA q :
    Let(Peek(PostArgs(req), key), LAMBDA b :
      IF Len(q) > 0 THEN q
      ELSE IF Len(b) > 0 THEN b
      ELSE IF req.ctype = MIMEMultipartForm THEN Peek(MultipartValues(req.parts), key)
      ELSE <<>>))

ErrNoMultipartForm == NewError(0, <<"request has no multipart/form-data Content-Type">>)
ErrMissingFile == NewError(0, <<"there is no uploaded file associated with the given key">>)
ErrCreate == NewError(0, <<"open ./target: no such file or directory">>)
ErrCopy == NewError(0, <<"write ./target: no space left on device">>)
ErrUnprocessableEntity == NewError(StatusUnprocessableEntity, <<"Unprocessable Entity">>)

\* ctx.FormFile(key): the first file part of that field.
FormFile(req, key) ==
  IF req.ctype # MIMEMultipartForm THEN [err |-> ErrNoMultipartForm, file |-> <<>>]
  ELSE LET hit == {i \in 1..Len(req.parts) : req.parts[i].field = key /\ req.parts[i].filename # ""}
       IN  IF hit = {} THEN [err |-> ErrMissingFile, file |-> <<>>]
           ELSE [err |-> Nil, file |-> <<req.parts[CHOOSE i \in hit : \A j \in hit : i <= j]>>]

Absent == [exists |-> FALSE, data |-> <<>>]

File(data) == [exists |-> TRUE, data |-> data]

\* ctx.SaveFile(file, dir + file.Filename): the file is created, then the
\* part's bytes are copied into it.  Creating can fail (nothing is written)
\* and copying can fail (the file is left truncated).
SaveFile(file, dir, outcome) ==
  CASE outcome = "ok" -> [err |-> Nil, dir |-> [dir EXCEPT ![file.filename] = File(file.data)]]
    [] outcome = "createFails" -> [err |-> ErrCreate, dir |-> dir]
    [] outcome = "copyFails" -> [err |-> ErrCopy, dir |-> [dir EXCEPT ![file.filename] = File(<<>>)]]

RegisterKeys == {K_username, K_password, K_name}

LoginKeys == {K_username, K_password}

\* ctx.BodyParser(out) for a struct of string fields: the decoder is chosen
\* by the request's content type.
BodyParser(req) ==
  CASE req.ctype = MIMEApplicationJSON ->
         Let(JSONUnmarshal(req.body, RegisterKeys), LAMBDA d :
           [err |-> IF d.ok THEN Nil ELSE NewError(0, d.err), fields |-> d.fields])
    [] req.ctype = MIMEApplicationForm -> [err |-> Nil, fields |-> PostArgs(req)]
    [] req.ctype = MIMEMultipartForm -> [err |-> Nil, fields |-> MultipartValues(req.parts)]
    [] req.ctype \in {MIMEApplicationXML, MIMETextXML} ->
         Let(XMLUnmarshal(req.body), LAMBDA d :
           [err |-> IF d.ok THEN Nil ELSE NewError(0, d.err), fields |-> d.fields])
    [] OTHER -> [err |-> ErrUnprocessableEntity, fields |-> <<>>]

\* A Go map built by writing these entries in order: a function of its keys.
MakeMap(writes) == [k \in {writes[i].key : i \in 1..Len(writes)} |-> LastField(writes, k)]

RECURSIVE SortKeys(_)
SortKeys(S) ==
  IF S = {} THEN <<>>
  ELSE LET m == CHOOSE x \in S : \A y \in S \ {x} : Less(x, y)
       IN  <<m>> \o SortKeys(S \ {m})

RECURSIVE MarshalMembers(_, _)
MarshalMembers(m, keys) ==
  IF keys = <<>> THEN <<>>
  ELSE Quoted(keys[1]) \o <<":">> \o Quoted(m[keys[1]])
       \o (IF Len(keys) > 1 THEN <<",">> ELSE <<>>) \o MarshalMembers(m, Tail(keys))

\* ctx.JSON(map): the map's members in the order of their keys.
MarshalMap(m) == <<"{">> \o MarshalMembers(m, SortKeys(DOMAIN m)) \o <<"}">>

\* --------------------------------------------------------------- handlers

\* TestRoutingHelloWorld: GET /
RootHandler(req, dir) == Done(SendString(NewCtx, HelloWorldBang), Nil, dir)

HelloParamHandlerNoDefault(req, dir) ==
  LET name == Query(req, K_name, <<>>)
  IN  Done(SendString(NewCtx, HelloComma \o name), Nil, dir)

\* TestRoutingHelloWorldParam: GET /hello
HelloParamHandler(req, dir) ==
  LET name == Query(req, K_name, World)
  IN  Done(SendString(NewCtx, HelloComma \o name), Nil, dir)

\* TestFormRequest: POST /hello
HelloFormHandler(req, dir) ==
  LET name == FormValue(req, K_name)
  IN  Done(SendString(NewCtx, HelloSpace \o name), Nil, dir)

UploadHandlerIgnoresSaveError(req, dir, outcome) ==
  Let(FormFile(req, "file"), LAMBDA f :
    IF ~f.err.isNil THEN Done(NewCtx, f.err, dir)
    ELSE Done(SendString(NewCtx, UploadSuccess), Nil, SaveFile(f.file[1], dir, outcome).dir))

\* TestFormUpload: POST /upload
UploadHandler(req, dir, outcome) ==
  Let(FormFile(req, "file"), LAMBDA f :
    IF ~f.err.isNil THEN Done(NewCtx, f.err, dir)
    ELSE Let(SaveFile(f.file[1], dir, outcome), LAMBDA saved :
           IF ~saved.err.isNil THEN Done(NewCtx, saved.err, saved.dir)
           ELSE Done(SendString(NewCtx, UploadSuccess), Nil, saved.dir)))

LoginHandlerIgnoresError(req, dir) ==
  Let(JSONUnmarshal(req.body, LoginKeys), LAMBDA d :
    Done(SendString(NewCtx, HelloSpace \o LastField(d.fields, K_username)), Nil, dir))

\* TestRequestBody: POST /login
LoginHandler(req, dir) ==
  Let(JSONUnmarshal(req.body, LoginKeys), LAMBDA d :
    IF ~d.ok THEN Done(NewCtx, NewError(0, d.err), dir)
    ELSE Done(SendString(NewCtx, HelloSpace \o LastField(d.fields, K_username)), Nil, dir))

RegisterHandlerEchoesName(req, dir) ==
  Let(BodyParser(req), LAMBDA parsed :
    IF ~parsed.err.isNil THEN Done(NewCtx, parsed.err, dir)
    ELSE Done(SendString(NewCtx, RegisterSuccess \o LastField(parsed.fields, K_name)), Nil, dir))

\* TestBodyParser: POST /register
RegisterHandler(req, dir) ==
  Let(BodyParser(req), LAMBDA parsed :
    IF ~parsed.err.isNil THEN Done(NewCtx, parsed.err, dir)
    ELSE Done(SendString(NewCtx, RegisterSuccess \o LastField(parsed.fields, K_username)), Nil, dir))

UserMapOtherPassword == <<[key |-> K_username, val |-> Salman], [key |-> K_password, val |-> <<"1", "2">>]>>

\* The fiber.Map literal of TestResponseJSON, in the order it is written.
UserMap == <<[key |-> K_username, val |-> Salman], [key |-> K_password, val |-> P123]>>

\* TestResponseJSON: GET /user
UserHandler(req, dir) == Done(SendString(NewCtx, MarshalMap(MakeMap(UserMap))), Nil, dir)

\* TestErrorHandler: GET /error
UpsHandler(req, dir) == Done(NewCtx, NewError(0, Ups), dir)

\* The handler app.Static installs: a file of the root directory named by the
\* rest of the path is sent; anything else is passed on.
StaticHandler(route, req, files, dir) ==
  LET rest == Sub(req.path, Len(route.path) + 1, Len(req.path))
  IN  IF Len(rest) = 1 /\ rest[1] \in DOMAIN files /\ files[rest[1]].exists
      THEN Done(SendString(NewCtx, files[rest[1]].data), Nil, dir)
      ELSE PassOn(dir)

\* ----------------------------------------------------------------- routes

Route(method, path, handler) ==
  [kind |-> "exact", method |-> method, path |-> path, handler |-> handler, root |-> ""]

Use(prefix, handler) ==
  [kind |-> "use", method |-> "*", path |-> prefix, handler |-> handler, root |-> ""]

Static(prefix, root) ==
  [kind |-> "static", method |-> "GET", path |-> prefix, handler |-> "static", root |-> root]

TestRoutingHelloWorld == Route("GET", <<>>, "root")

TestRoutingHelloWorldParam == Route("GET", <<"hello">>, "helloParam")

TestFormRequestAsGet == Route("GET", <<"hello">>, "helloForm")

TestFormRequest == Route("POST", <<"hello">>, "helloForm")

TestFormUpload == Route("POST", <<"upload">>, "upload")

TestRequestBody == Route("POST", <<"login">>, "login")

TestBodyParser == Route("POST", <<"register">>, "register")

TestResponseJSON == Route("GET", <<"user">>, "user")

TestStaticOfTarget == Static(<<"public">>, "./target")

TestStatic == Static(<<"public">>, "./source")

TestErrorHandler == Route("GET", <<"error">>, "ups")

Registrations ==
  {TestRoutingHelloWorld, TestRoutingHelloWorldParam, TestFormRequest, TestFormUpload,
   TestRequestBody, TestBodyParser, TestResponseJSON, TestStatic, TestErrorHandler}

HasPrefix(path, prefix) == Len(prefix) <= Len(path) /\ Sub(path, 1, Len(prefix)) = prefix

\* Whether a route of the stack takes a request: a route of a method and a
\* path takes exactly those; a static mapping takes every GET under its prefix;
\* a middleware takes every request under its prefix.
Match(route, req) ==
  CASE route.kind = "exact" -> route.method = req.method /\ route.path = req.path
    [] route.kind = "static" -> route.method = req.method /\ HasPrefix(req.path, route.path)
    [] route.kind = "use" -> HasPrefix(req.path, route.path)

Directory(root, src, dir) == IF root = "./source" THEN src ELSE dir

RunHandler(route, req, src, dir, outcome) ==
  CASE route.handler = "root" -> RootHandler(req, dir)
    [] route.handler = "helloParam" -> HelloParamHandler(req, dir)
    [] route.handler = "helloForm" -> HelloFormHandler(req, dir)
    [] route.handler = "upload" -> UploadHandler(req, dir, outcome)
    [] route.handler = "login" -> LoginHandler(req, dir)
    [] route.handler = "register" -> RegisterHandler(req, dir)
    [] route.handler = "user" -> UserHandler(req, dir)
    [] route.handler = "ups" -> UpsHandler(req, dir)
    [] route.handler = "static" -> StaticHandler(route, req, Directory(route.root, src, dir), dir)

ErrNotFound(req) == NewError(StatusNotFound, <<"Cannot ", req.method, " /">> \o req.path)

\* The router: the first route of the stack, from position i on, that matches
\* the request runs; a handler that passes the request on hands it to the
\* routes after it; with no route left the request is not found.
RECURSIVE Next(_, _, _, _, _, _)
Next(stack, i, req, src, dir, outcome) ==
  IF i > Len(stack) THEN Done(NewCtx, ErrNotFound(req), dir)
  ELSE IF Match(stack[i], req)
       THEN Let(RunHandler(stack[i], req, src, dir, outcome), LAMBDA r :
              IF r.next THEN Next(stack, i + 1, req, src, r.dir, outcome) ELSE r)
  ELSE Next(stack, i + 1, req, src, dir, outcome)

\* app.Test(request): route the request and, when the chain returns an
\* error, let the application's error handler write the response.
Serve(stack, req, src, dir, outcome) ==
  Let(Next(stack, 1, req, src, dir, outcome), LAMBDA r :
    [resp |-> IF r.err.isNil THEN r.ctx ELSE ErrorHandler(r.ctx, r.err),
     err |-> r.err,
     dir |-> r.dir])

\* --------------------------------------------------------------- requests

Req(method, path, query, ctype, body, parts) ==
  [method |-> method, path |-> path, query |-> query, ctype |-> ctype, body |-> body, parts |-> parts]

Get(path, query) == Req("GET", path, query, "", <<>>, <<>>)

Post(path, ctype, body) == Req("POST", path, <<>>, ctype, body, <<>>)

NoRequest == Req("", <<>>, <<>>, "", <<>>, <<>>)

NoResponse == [status |-> 0, body |-> <<>>]

\* Values of the name parameter, as they are written in a query or a form.
Names == {<<>>, <<"a">>, Salman, <<"a", "%", "2", "6", "b">>, <<"a", "+", "b">>}

NameQueries == {<<>>, <<"x", "=", "1">>} \cup {K_name \o <<"=">> \o n : n \in Names}

HelloRequests ==
  {Get(<<"hello">>, q) : q \in NameQueries}
  \cup {Req("POST", <<"hello">>, q, MIMEApplicationForm, b, <<>>) :
          q \in {<<>>, K_name \o <<"=", "q">>}, b \in NameQueries}

\* Registration records: user names with the characters each wire format
\* has to escape.
Usernames == {<<>>, Salman, <<"a", "&", "b">>, <<"<", "\"", "=">>, <<"%", "+", " ">>, <<"\\", "-">>}

Passwords == {P123, <<"&">>}

FullNames == {<<"S", " ", "S">>, <<"S", "-", "S">>}

Record(u, p, n) == [username |-> u, password |-> p, name |-> n]

Records ==
  {Record(u, P123, <<"S", " ", "S">>) : u \in Usernames}
  \cup {Record(Salman, p, n) : p \in Passwords, n \in FullNames}

\* The three bodies the body-parser tests send, for any record.
EncodeJSON(rec) ==
  <<"{">> \o Quoted(K_username) \o <<":">> \o Quoted(rec.username) \o <<",">>
  \o Quoted(K_password) \o <<":">> \o Quoted(rec.password) \o <<",">>
  \o Quoted(K_name) \o <<":">> \o Quoted(rec.name) \o <<"}">>

EncodeForm(rec) ==
  K_username \o <<"=">> \o PctEncode(rec.username) \o <<"&">>
  \o K_password \o <<"=">> \o PctEncode(rec.password) \o <<"&">>
  \o K_name \o <<"=">> \o PctEncode(rec.name)

EncodeXML(rec) ==
  <<"<">> \o RootTag \o <<">", "\n", "\t">>
  \o Element(K_username, rec.username) \o <<"\n", "\t">>
  \o Element(K_password, rec.password) \o <<"\n", "\t">>
  \o Element(K_name, rec.name) \o <<"\n">>
  \o <<"<", "/">> \o RootTag \o <<">", "\n">>

Formats == {"json", "form", "xml"}

ContentType(format) ==
  CASE format = "json" -> MIMEApplicationJSON
    [] format = "form" -> MIMEApplicationForm
    [] format = "xml" -> MIMEApplicationXML

Encode(format, rec) ==
  CASE format = "json" -> EncodeJSON(rec)
    [] format = "form" -> EncodeForm(rec)
    [] format = "xml" -> EncodeXML(rec)

RegisterRequest(format, rec) == Post(<<"register">>, ContentType(format), Encode(format, rec))

\* Bodies that do not decode.
BadJSON ==
  {<<>>, <<"{">>, <<"x">>, <<"{", "\"", "u", "\"", ":", "\"", "a", "\"", "}", "}">>,
   <<"{">> \o Quoted(K_username) \o <<":", "1", "}">>, <<"1">>, Quoted(<<"a">>),
   <<"{">> \o Quoted(K_username) \o <<":", "\"", "a", "}">>}

BadXML ==
  {<<>>, <<"<", "a", ">">>, <<"<", "a", ">", "<", "/", "b", ">">>,
   <<"<", "a", ">", "&", "x", ";", "<", "/", "a", ">">>}

\* Documents that decode although no test sends their like.
OddXML ==
  {<<"<", "a", ">">> \o K_username \o <<"<", "/", "a", ">">> \o <<"<">>,
   <<"<", "a", ">">> \o Element(K_username, <<"a">>) \o Element(K_username, <<"b">>) \o <<"<", "/", "a", ">">>}

OddJSON ==
  {<<"n", "u", "l", "l">>, <<"{", "}">>, <<" ", "{", " ", "}", " ">>,
   <<"{">> \o Quoted(<<"x">>) \o <<":", "1", ",">> \o Quoted(K_username) \o <<":">> \o Quoted(<<"a">>) \o <<"}">>}

RegisterRequests ==
  {RegisterRequest(f, rec) : f \in Formats, rec \in Records}
  \cup {Post(<<"register">>, MIMEApplicationJSON, b) : b \in BadJSON \cup OddJSON}
  \cup {Post(<<"register">>, MIMEApplicationXML, b) : b \in BadXML \cup OddXML}
  \cup {Post(<<"register">>, MIMETextXML, EncodeXML(Record(Salman, P123, <<"S", " ", "S">>)))}
  \cup {Post(<<"register">>, c, EncodeJSON(Record(Salman, P123, <<"S", " ", "S">>))) : c \in {"", MIMETextPlain}}
  \cup {Req("POST", <<"register">>, <<>>, MIMEMultipartForm, <<>>,
            <<[field |-> K_username, filename |-> "", data |-> Salman]>>)}

LoginBody(u, p) ==
  <<"{">> \o Quoted(K_username) \o <<":">> \o Quoted(u) \o <<",">>
  \o Quoted(K_password) \o <<":">> \o Quoted(p) \o <<"}">>

LoginRequests ==
  {Post(<<"login">>, MIMEApplicationJSON, LoginBody(rec.username, rec.password)) : rec \in Records}
  \cup {Post(<<"login">>, MIMEApplicationJSON, b) : b \in BadJSON \cup OddJSON}
  \cup {Post(<<"login">>, "", LoginBody(Salman, P123)), Post(<<"login">>, "", <<"{">>)}

FileNames == {"contoh.txt", "b.txt"}

Contents == {SampleContent, <<"x">>}

FilePart(field, filename, data) == [field |-> field, filename |-> filename, data |-> data]

UploadRequests ==
  {Req("POST", <<"upload">>, <<>>, MIMEMultipartForm, <<>>, <<FilePart("file", "contoh.txt", b)>>) :
     b \in Contents}
  \cup {Req("POST", <<"upload">>, <<>>, MIMEMultipartForm, <<>>, <<FilePart("file", "b.txt", <<"x">>)>>)}
  \cup {Req("POST", <<"upload">>, <<>>, MIMEMultipartForm, <<>>, parts) :
          parts \in {<<>>, <<FilePart("doc", "b.txt", <<"x">>)>>,
                     <<FilePart("doc", "b.txt", SampleContent), FilePart("file", "b.txt", <<"x">>),
                       FilePart("file", "contoh.txt", <<"x">>)>>}}
  \cup {Post(<<"upload">>, MIMEApplicationForm, <<"f", "i", "l", "e", "=", "x">>)}

StaticRequests ==
  {Get(<<"public", n>>, <<>>) : n \in FileNames \cup {"missing.txt"}}
  \cup {Get(<<"public">>, <<>>), Post(<<"public", "contoh.txt">>, "", <<>>)}

OtherRequests ==
  {Get(<<>>, <<>>), Get(<<"user">>, <<>>), Get(<<"error">>, <<>>),
   Post(<<"error">>, "", <<>>), Get(<<"nope">>, <<>>)}

Requests ==
  HelloRequests \cup RegisterRequests \cup LoginRequests \cup UploadRequests
  \cup StaticRequests \cup OtherRequests

\* How saving an upload can end; only an upload request has a choice.
Outcomes(req) == IF req.path = <<"upload">> THEN {"ok", "createFails", "copyFails"} ELSE {"ok"}

EmptyDir == [n \in FileNames |-> Absent]

\* ./source as it is provisioned: the sample file, with one content or another.
SourceDirs ==
  {[EmptyDir EXCEPT !["contoh.txt"] = File(SampleContent)],
   [EmptyDir EXCEPT !["contoh.txt"] = File(<<"x">>), !["b.txt"] = File(<<>>)]}

\* ------------------------------------------------------------ test run

NoConns == [c \in 1..MaxConns |-> [pc |-> "idle"]]

MainIdle ==
  /\ pc = "new"
  /\ installed = <<>>
  /\ stdout = <<>>
  /\ conns = NoConns
  /\ served = 0
  /\ isChild = FALSE
  /\ listenErr = Nil
  /\ panicked = Nil

Init ==
  /\ routes = <<>>
  /\ lastReq = NoRequest
  /\ lastResp = NoResponse
  /\ lastErr = Nil
  /\ lastSave = "ok"
  /\ source \in SourceDirs
  /\ target = EmptyDir
  /\ MainIdle

\* A test registers its route on the package-level application.
Register(r) ==
  /\ lastReq = NoRequest
  /\ Len(routes) < MaxRoutes
  /\ routes' = Append(routes, r)
  /\ UNCHANGED <<lastReq, lastResp, lastErr, lastSave, source, target>>
  /\ UNCHANGED mainVars

\* A test sends a request through app.Test.
Request(req, outcome) ==
  /\ lastReq = NoRequest
  /\ \E s \in {Serve(routes, req, source, target, outcome)} :
       /\ lastReq' = req
       /\ lastResp' = s.resp
       /\ lastErr' = s.err
       /\ lastSave' = outcome
       /\ target' = s.dir
  /\ UNCHANGED <<routes, source>>
  /\ UNCHANGED mainVars

\* The test has read the response and returns.
Finish ==
  /\ lastReq # NoRequest
  /\ lastReq' = NoRequest
  /\ lastResp' = NoResponse
  /\ lastErr' = Nil
  /\ lastSave' = "ok"
  /\ UNCHANGED <<routes, source, target>>
  /\ UNCHANGED mainVars

TestNext ==
  \/ \E r \in Registrations : Register(r)
  \/ \E req \in Requests : \E outcome \in Outcomes(req) : Request(req, outcome)
  \/ Finish

Spec == Init /\ [][TestNext]_vars

\* ------------------------------------------------------------- main.go

\* The middleware main installs on /api, and main's GET / route.
ApiMiddleware == Use(<<"api">>, "apiMiddleware")

MainRoot == Route("GET", <<>>, "mainRoot")

\* main's GET / handler.
MainRootHandler(ctx) == SendString(ctx, HelloWorldBang)

MiddlewareSwallows(err) == Nil

\* What the middleware returns, given what ctx.Next() returned to it.
MiddlewareReturn(err) == err

\* The application's default error handler: the status of a framework error,
\* otherwise 500, and the error's message.
DefaultErrorHandler(ctx, err) ==
  SendString(Status(ctx, IF err.code # 0 THEN err.code ELSE StatusInternalServerError), err.msg)

ErrListen == NewError(0, <<"listen tcp 127.0.0.1:3000: bind: address already in use">>)

\* The first route of the stack, from position i on, that matches; 0 if none.
RECURSIVE FirstMatch(_, _, _)
FirstMatch(stack, i, req) ==
  IF i > Len(stack) THEN 0
  ELSE IF Match(stack[i], req) THEN i
  ELSE FirstMatch(stack, i + 1, req)

\* Requests to the server: to the route, to the middleware's prefix and below
\* it, and to paths and methods nothing is installed for.
MainRequests ==
  {Get(<<>>, <<>>), Post(<<>>, "", <<>>), Get(<<"api">>, <<>>),
   Post(<<"api", "hello">>, "", <<>>), Get(<<"hello">>, <<>>)}

MainInit ==
  /\ routes = <<>>
  /\ lastReq = NoRequest
  /\ lastResp = NoResponse
  /\ lastErr = Nil
  /\ lastSave = "ok"
  /\ source = EmptyDir
  /\ target = EmptyDir
  /\ pc = "new"
  /\ installed = <<>>
  /\ stdout = <<>>
  /\ conns = NoConns
  /\ served = 0
  /\ isChild \in BOOLEAN
  /\ listenErr = Nil
  /\ panicked = Nil

\* app := fiber.New(...)
MainNew ==
  /\ pc = "new"
  /\ pc' = "use"
  /\ installed' = <<>>
  /\ UNCHANGED <<stdout, conns, served, isChild, listenErr, panicked>>
  /\ UNCHANGED testVars

\* app.Use("/api", ...)
MainUse ==
  /\ pc = "use"
  /\ pc' = "get"
  /\ installed' = Append(installed, ApiMiddleware)
  /\ UNCHANGED <<stdout, conns, served, isChild, listenErr, panicked>>
  /\ UNCHANGED testVars

\* app.Get("/", ...)
MainGet ==
  /\ pc = "get"
  /\ pc' = "isChild"
  /\ installed' = Append(installed, MainRoot)
  /\ UNCHANGED <<stdout, conns, served, isChild, listenErr, panicked>>
  /\ UNCHANGED testVars

\* if fiber.IsChild() { Println("Child process") } else { Println("Parent process") }
MainIsChild ==
  /\ pc = "isChild"
  /\ pc' = "listen"
  /\ stdout' = Append(stdout, [rid |-> 0, line |-> IF isChild THEN ChildProcess ELSE ParentProcess])
  /\ UNCHANGED <<installed, conns, served, isChild, listenErr, panicked>>
  /\ UNCHANGED testVars

\* err := app.Listen("localhost:3000"): the call fails at once, or the server
\* starts to serve.
MainListen ==
  /\ pc = "listen"
  /\ \/ pc' = "serving" /\ UNCHANGED listenErr
     \/ pc' = "returned" /\ listenErr' = ErrListen
  /\ UNCHANGED <<installed, stdout, conns, served, isChild, panicked>>
  /\ UNCHANGED testVars

\* app.Listen returns while the server is serving: with an error, or with nil
\* after a shutdown.
ListenReturns ==
  /\ pc = "serving"
  /\ pc' = "returned"
  /\ listenErr' \in {Nil, ErrListen}
  /\ UNCHANGED <<installed, stdout, conns, served, isChild, panicked>>
  /\ UNCHANGED testVars

MainCheckNoPanic(err) == [pc |-> "exited", panicked |-> Nil]

\* if err != nil { panic(err) }, then the end of main.
MainCheck(err) ==
  IF ~err.isNil THEN [pc |-> "panicked", panicked |-> err] ELSE [pc |-> "exited", panicked |-> Nil]

MainReturned ==
  /\ pc = "returned"
  /\ pc' = MainCheck(listenErr).pc
  /\ panicked' = MainCheck(listenErr).panicked
  /\ UNCHANGED <<installed, stdout, conns, served, isChild, listenErr>>
  /\ UNCHANGED testVars

Conn(p, rid, req, at, err, ret, ctx) ==
  [pc |-> p, rid |-> rid, req |-> req, at |-> at, err |-> err, ret |-> ret, ctx |-> ctx]

\* The server accepts a request on a free connection and routes it: to the
\* middleware, to the GET / handler, or to no route at all.
Accept(c, req) ==
  /\ pc = "serving"
  /\ conns[c].pc = "idle"
  /\ served < MaxRequests
  /\ served' = served + 1
  /\ LET j == FirstMatch(installed, 1, req)
     IN  conns' = [conns EXCEPT ![c] =
           IF j = 0
           THEN Conn("done", served', req, 0, ErrNotFound(req), ErrNotFound(req),
                     DefaultErrorHandler(NewCtx, ErrNotFound(req)))
           ELSE IF installed[j].handler = "apiMiddleware"
                THEN Conn("before", served', req, j, Nil, Nil, NewCtx)
           ELSE Conn("done", served', req, j, Nil, Nil, MainRootHandler(NewCtx))]
  /\ UNCHANGED <<pc, installed, stdout, isChild, listenErr, panicked>>
  /\ UNCHANGED testVars

\* fmt.Println("Middleware before processing request")
MiddlewareBefore(c) ==
  /\ pc = "serving"
  /\ conns[c].pc = "before"
  /\ stdout' = Append(stdout, [rid |-> conns[c].rid, line |-> Before])
  /\ conns' = [conns EXCEPT ![c].pc = "next"]
  /\ UNCHANGED <<pc, installed, served, isChild, listenErr, panicked>>
  /\ UNCHANGED testVars

\* err := ctx.Next(): the routes after the middleware handle the request.
MiddlewareNext(c) ==
  /\ pc = "serving"
  /\ conns[c].pc = "next"
  /\ LET k == FirstMatch(installed, conns[c].at + 1, conns[c].req)
     IN  conns' = [conns EXCEPT ![c] =
           IF k = 0
           THEN [@ EXCEPT !.pc = "after", !.err = ErrNotFound(conns[c].req)]
           ELSE [@ EXCEPT !.pc = "after", !.err = Nil, !.ctx = MainRootHandler(@)]]
  /\ UNCHANGED <<pc, installed, stdout, served, isChild, listenErr, panicked>>
  /\ UNCHANGED testVars

\* fmt.Println("Middleware after processing request")
MiddlewareAfter(c) ==
  /\ pc = "serving"
  /\ conns[c].pc = "after"
  /\ stdout' = Append(stdout, [rid |-> conns[c].rid, line |-> After])
  /\ conns' = [conns EXCEPT ![c].pc = "return"]
  /\ UNCHANGED <<pc, installed, served, isChild, listenErr, panicked>>
  /\ UNCHANGED testVars

\* return err, and the application answers: with the error handler's response
\* when the middleware returned an error.
MiddlewareReturns(c) ==
  /\ pc = "serving"
  /\ conns[c].pc = "return"
  /\ LET ret == MiddlewareReturn(conns[c].err)
     IN  conns' = [conns EXCEPT ![c] =
           [@ EXCEPT !.pc = "done", !.ret = ret,
                     !.ctx = IF ret.isNil THEN @ ELSE DefaultErrorHandler(@, ret)]]
  /\ UNCHANGED <<pc, installed, stdout, served, isChild, listenErr, panicked>>
  /\ UNCHANGED testVars

\* The response is written and the connection is free again.
Close(c) ==
  /\ pc = "serving"
  /\ conns[c].pc = "done"
  /\ conns' = [conns EXCEPT ![c] = [pc |-> "idle"]]
  /\ UNCHANGED <<pc, installed, stdout, served, isChild, listenErr, panicked>>
  /\ UNCHANGED testVars

MainNext ==
  \/ MainNew
  \/ MainUse
  \/ MainGet
  \/ MainIsChild
  \/ MainListen
  \/ ListenReturns
  \/ MainReturned
  \/ \E c \in 1..MaxConns, req \in MainRequests : Accept(c, req)
  \/ \E c \in 1..MaxConns : MiddlewareBefore(c)
  \/ \E c \in 1..MaxConns : MiddlewareNext(c)
  \/ \E c \in 1..MaxConns : MiddlewareAfter(c)
  \/ \E c \in 1..MaxConns : MiddlewareReturns(c)
  \/ \E c \in 1..MaxConns : Close(c)

MainSpec == MainInit /\ [][MainNext]_vars

\* ================================================================ claims

Registered(r) == r \in Range(routes)

Answering(method, path) == lastReq.method = method /\ lastReq.path = path

Response(status, body) == [status |-> status, body |-> body]

\* C1: whatever error the handler chain returns, the response is status 500
\* with the error's message as its body; GET /error, once registered, is
\* answered with 500 and "Ups".
C1_ErrorIs500WithMessage ==
  /\ (lastReq # NoRequest /\ ~lastErr.isNil) => lastResp = Response(500, lastErr.msg)
  /\ (Answering("GET", <<"error">>) /\ Registered(TestErrorHandler))
       => lastErr = NewError(0, Ups) /\ lastResp = Response(500, Ups)

C1_Witness ==
  /\ Answering("GET", <<"error">>)
  /\ lastErr = NewError(0, Ups)
  /\ lastResp = Response(500, Ups)

\* The well-formed registration requests, each with the record it carries.
RegisterSent ==
  [rq \in {RegisterRequest(f, rec) : f \in Formats, rec \in Records} |->
     CHOOSE rec \in Records : \E f \in Formats : RegisterRequest(f, rec) = rq]

\* C2: a registration record sent to POST /register as JSON, as a form or as
\* XML is answered 200 "Register Success " + its username in all three
\* formats, whatever its password and name.
C2_RegisterFormatAgnostic ==
  (lastReq \in DOMAIN RegisterSent /\ Registered(TestBodyParser))
    => lastResp = Response(200, RegisterSuccess \o RegisterSent[lastReq].username)

C2_Witness ==
  /\ Registered(TestBodyParser)
  /\ lastReq = RegisterRequest("xml", Record(<<"<", "\"", "=">>, P123, <<"S", " ", "S">>))
  /\ lastResp = Response(200, RegisterSuccess \o <<"<", "\"", "=">>)

NameArgs == ParseArgs(lastReq.query)

\* C3 as stated: GET /hello answers "Hello, " + the name parameter whenever
\* the parameter is present, and "Hello, World" only when it is absent.
C3_DefaultOnlyWhenAbsent ==
  (Answering("GET", <<"hello">>) /\ Registered(TestRoutingHelloWorldParam))
    => lastResp = Response(200, HelloComma \o (IF HasKey(NameArgs, K_name)
                                                THEN Peek(NameArgs, K_name) ELSE World))

\* C3, amended: GET /hello answers "Hello, " + the name parameter when the
\* parameter is present with a non-empty value, and "Hello, World" when it is
\* absent or its value is empty.
C3_DefaultWhenAbsentOrEmpty ==
  (Answering("GET", <<"hello">>) /\ Registered(TestRoutingHelloWorldParam))
    => lastResp = Response(200, HelloComma \o (IF Peek(NameArgs, K_name) # <<>>
                                                THEN Peek(NameArgs, K_name) ELSE World))

C3_Witness ==
  /\ Answering("GET", <<"hello">>)
  /\ HasKey(NameArgs, K_name)
  /\ Peek(NameArgs, K_name) = <<>>
  /\ lastResp = Response(200, HelloComma \o World)

Uploaded == FormFile(lastReq, "file")

\* C4: an upload answered 200 "Upload Success" has left exactly the part's
\* bytes in ./target under the part's file name; the success text is sent
\* only when reading the form file and saving it both succeeded, and the
\* error is returned when either failed.
C4_UploadSavedBeforeSuccess ==
  (Answering("POST", <<"upload">>) /\ Registered(TestFormUpload)) =>
    /\ lastResp = Response(200, UploadSuccess) <=> (Uploaded.err.isNil /\ lastSave = "ok")
    /\ lastResp = Response(200, UploadSuccess)
         => target[Uploaded.file[1].filename] = File(Uploaded.file[1].data)
    /\ ~Uploaded.err.isNil => lastErr = Uploaded.err
    /\ (Uploaded.err.isNil /\ lastSave # "ok")
         => ~lastErr.isNil /\ lastErr = SaveFile(Uploaded.file[1], target, lastSave).err

C4_Witness ==
  /\ Answering("POST", <<"upload">>)
  /\ lastResp = Response(200, UploadSuccess)
  /\ Uploaded.file[1].filename = "contoh.txt"
  /\ target["contoh.txt"] = File(SampleContent)

\* C5: a body that does not decode is answered like any other handler error:
\* POST /login with a body that is no JSON for LoginRequest, and POST
\* /register with a body the body parser cannot decode, are answered 500 with
\* the decoding error's message, and the success text is not sent.
C5_ParseErrorIs500 ==
  /\ (Answering("POST", <<"login">>) /\ Registered(TestRequestBody)
        /\ ~JSONUnmarshal(lastReq.body, LoginKeys).ok)
       => /\ lastErr = NewError(0, JSONUnmarshal(lastReq.body, LoginKeys).err)
          /\ lastResp = Response(500, JSONUnmarshal(lastReq.body, LoginKeys).err)
          /\ ~HasPrefix(lastResp.body, HelloSpace)
  /\ (Answering("POST", <<"register">>) /\ Registered(TestBodyParser)
        /\ ~BodyParser(lastReq).err.isNil)
       => /\ lastErr = BodyParser(lastReq).err
          /\ lastResp = Response(500, BodyParser(lastReq).err.msg)
          /\ ~HasPrefix(lastResp.body, RegisterSuccess)

C5_Witness ==
  /\ Answering("POST", <<"login">>)
  /\ lastReq.body = <<"{">>
  /\ lastResp = Response(500, ErrUnexpectedEnd)

\* The orders in which the entries of a map literal can be written.
Orders(writes) ==
  {o \in [1..Len(writes) -> 1..Len(writes)] : \A i, j \in 1..Len(writes) : i # j => o[i] # o[j]}

\* C6: GET /user answers 200 with the object's keys in lexicographic order,
\* {"password":"123","username":"Salman"}, in whatever order the map was
\* written.
C6_UserJSONSorted ==
  /\ (Answering("GET", <<"user">>) /\ Registered(TestResponseJSON))
       => lastResp = Response(200, UserJSON)
  /\ \A o \in Orders(UserMap) :
       MarshalMap(MakeMap([i \in 1..Len(UserMap) |-> UserMap[o[i]]])) = MarshalMap(MakeMap(UserMap))

C6_Witness ==
  /\ Answering("GET", <<"user">>)
  /\ lastResp = Response(200, UserJSON)

\* C7: once /public is mapped to ./source, GET /public/<name> of a file that
\* exists in ./source is answered 200 with the file's content.
C7_StaticServesFile ==
  \A n \in FileNames :
    (Registered(TestStatic) /\ lastReq = Get(<<"public", n>>, <<>>) /\ source[n].exists)
      => lastResp = Response(200, source[n].data)

C7_Witness ==
  /\ lastReq = Get(<<"public", "contoh.txt">>, <<>>)
  /\ source["contoh.txt"] = File(SampleContent)
  /\ lastResp = Response(200, SampleContent)

\* C8: when main calls Listen the /api middleware and the GET / route are
\* installed, in that order; once Listen has returned an error main panics
\* with it, and neither goes on serving nor exits normally.
C8_ListenFailurePanics ==
  /\ pc \in {"listen", "serving", "returned", "panicked", "exited"}
       => installed = <<ApiMiddleware, MainRoot>>
  /\ ~listenErr.isNil => pc \in {"returned", "panicked"}
  /\ pc = "panicked" => ~listenErr.isNil /\ panicked = listenErr
  /\ pc = "exited" => listenErr.isNil /\ panicked = Nil

C8_Witness ==
  /\ pc = "panicked"
  /\ panicked = ErrListen
  /\ served > 0

\* The lines a request has printed, in order.
RECURSIVE LinesOf(_, _)
LinesOf(out, rid) ==
  IF out = <<>> THEN <<>>
  ELSE (IF out[1].rid = rid THEN <<out[1].line>> ELSE <<>>) \o LinesOf(Tail(out), rid)

UnderApi(c) == conns[c].pc # "idle" /\ HasPrefix(conns[c].req.path, <<"api">>)

\* C9: a request under /api goes through the middleware, which prints its
\* "before" line, runs the rest of the chain, prints its "after" line whether
\* or not the chain returned an error, and returns the chain's error.
C9_MiddlewareAroundNext ==
  \A c \in 1..MaxConns :
    UnderApi(c) =>
      /\ conns[c].pc \in {"before", "next", "after", "return", "done"}
      /\ conns[c].pc = "before" => LinesOf(stdout, conns[c].rid) = <<>>
      /\ conns[c].pc \in {"next", "after"} => LinesOf(stdout, conns[c].rid) = <<Before>>
      /\ conns[c].pc \in {"return", "done"} => LinesOf(stdout, conns[c].rid) = <<Before, After>>
      /\ conns[c].pc = "done" => conns[c].ret = conns[c].err

C9_Witness ==
  \E c \in 1..MaxConns :
    /\ UnderApi(c)
    /\ conns[c].pc = "done"
    /\ ~conns[c].err.isNil
    /\ conns[c].ret = conns[c].err
    /\ LinesOf(stdout, conns[c].rid) = <<Before, After>>

Accumulates == routes' = routes \/ \E r \in Registrations : routes' = Append(routes, r)

Answered ==
  /\ (Answering("GET", <<"hello">>) /\ Registered(TestRoutingHelloWorldParam))
       => lastResp = Response(200, HelloComma \o Query(lastReq, K_name, World))
  /\ (Answering("POST", <<"hello">>) /\ Registered(TestFormRequest))
       => lastResp = Response(200, HelloSpace \o FormValue(lastReq, K_name))
  /\ (Answering("POST", <<"register">>) /\ Registered(TestBodyParser))
       => lastResp = Serve(<<TestBodyParser>>, lastReq, source, target, "ok").resp

\* C10: registrations only ever add to the application's route stack, and
\* whatever has been registered, in whatever order and however often, GET
\* /hello is answered by the GET /hello handler, POST /hello by the POST
\* /hello handler, and POST /register as after a single registration.
C10_RoutesAccumulate == [][Accumulates]_vars /\ []Answered

C10_Witness ==
  /\ routes = <<TestBodyParser, TestBodyParser>>
  /\ lastReq = RegisterRequest("json", Record(Salman, P123, <<"S", " ", "S">>))
  /\ lastResp = Response(200, RegisterSuccess \o Salman)

====
